---------------------------- MODULE Spec2Model ----------------------------
(***************************************************************************)
(* Academic review system: the Validator (security.py), the Retriever      *)
(* (paper_retriever.py), the Synthesizer (review_generator.py) and the     *)
(* "Generate Review" handler that sequences them (main.py).                *)
(*                                                                         *)
(* Text is a TLA+ string, read character by character with Len, SubSeq and *)
(* \o.  Python's regular expressions are modelled by a small backtracking  *)
(* matcher over sequences of atoms (literal, repeated character class,     *)
(* word boundary); a regex with a top-level alternation is the set of its  *)
(* alternatives.  Floats are integers counted in tenths (0.7 is 7).        *)
(* A TLA+ string cannot hold the NUL byte or the backtick, so no text of    *)
(* the model contains either.                                              *)
(***************************************************************************)
EXTENDS Integers, Sequences, FiniteSets, TLC

(***************************************************************************)
(* Characters and strings                                                  *)
(***************************************************************************)
Char(s, i) == SubSeq(s, i, i)

CharsOf(s) == {Char(s, i) : i \in 1..Len(s)}

Uppercase == "ABCDEFGHIJKLMNOPQRSTUVWXYZ"

Lowercase == "abcdefghijklmnopqrstuvwxyz"

DigitChars == CharsOf("0123456789")

\* \w of Python's re on the ASCII range
WordChars == CharsOf(Uppercase) \cup CharsOf(Lowercase) \cup DigitChars \cup {"_"}

\* \s of Python's re, and the characters str.strip() removes, on the ASCII range
SpaceChars == {" ", "\t", "\n", "\r", "\f"}

LowerMap == [c \in CharsOf(Uppercase) |->
               Char(Lowercase, CHOOSE i \in 1..26 : Char(Uppercase, i) = c)]

LowerChar(c) == IF c \in DOMAIN LowerMap THEN LowerMap[c] ELSE c

\* str.lower(), by halves to keep the recursion shallow
RECURSIVE Lower(_)
Lower(s) == IF Len(s) = 0 THEN ""
            ELSE IF Len(s) = 1 THEN LowerChar(s)
            ELSE Lower(SubSeq(s, 1, Len(s) \div 2))
                 \o Lower(SubSeq(s, (Len(s) \div 2) + 1, Len(s)))

SetMin(S) == CHOOSE x \in S : \A y \in S : x <= y

SetMax(S) == CHOOSE x \in S : \A y \in S : x >= y

\* sub occurs in s at position i (1-based)
OccursAt(s, sub, i) == /\ i >= 1
                       /\ i + Len(sub) - 1 <= Len(s)
                       /\ SubSeq(s, i, i + Len(sub) - 1) = sub

\* the Python operator  sub in s
Contains(s, sub) == \E i \in 1..(Len(s) + 1) : OccursAt(s, sub, i)

\* str.startswith
StartsWith(s, prefix) == OccursAt(s, prefix, 1)

\* str.find and str.rfind, 0-based, -1 when absent
Find(s, sub) == LET at == {i \in 1..(Len(s) + 1) : OccursAt(s, sub, i)}
                IN  IF at = {} THEN -1 ELSE SetMin(at) - 1

RFind(s, sub) == LET at == {i \in 1..(Len(s) + 1) : OccursAt(s, sub, i)}
                 IN  IF at = {} THEN -1 ELSE SetMax(at) - 1

\* the Python slice s[a:b], 0-based, for 0 <= a
Slice(s, a, b) == SubSeq(s, a + 1, IF b > Len(s) THEN Len(s) ELSE b)

\* str.replace(old, new) for a single character old, by halves
RECURSIVE ReplaceChar(_, _, _)
ReplaceChar(s, old, new) ==
    IF Len(s) = 0 THEN ""
    ELSE IF Len(s) = 1 THEN (IF s = old THEN new ELSE s)
    ELSE ReplaceChar(SubSeq(s, 1, Len(s) \div 2), old, new)
         \o ReplaceChar(SubSeq(s, (Len(s) \div 2) + 1, Len(s)), old, new)

\* str.strip()
RECURSIVE LStrip(_)
LStrip(s) == IF Len(s) > 0 /\ Char(s, 1) \in SpaceChars
             THEN LStrip(SubSeq(s, 2, Len(s))) ELSE s

RECURSIVE RStrip(_)
RStrip(s) == IF Len(s) > 0 /\ Char(s, Len(s)) \in SpaceChars
             THEN RStrip(SubSeq(s, 1, Len(s) - 1)) ELSE s

Strip(s) == RStrip(LStrip(s))

\* html.escape(s, quote)
HtmlEscape(s, quote) ==
    LET a == ReplaceChar(s, "&", "&amp;")
        b == ReplaceChar(a, "<", "&lt;")
        c == ReplaceChar(b, ">", "&gt;")
    IN  IF quote
        THEN ReplaceChar(ReplaceChar(c, "\"", "&quot;"), "'", "&#x27;")
        ELSE c

(***************************************************************************)
(* Regular expressions (Python re): an atom is a literal, a character      *)
(* class repeated min..max times (max = Unbounded for * and +), or \b.     *)
(***************************************************************************)
Unbounded == 0 - 1

Lit(s) == [k |-> "lit", s |-> s, cls |-> "", min |-> 0, max |-> 0, lazy |-> FALSE]

\* \b
WB == [k |-> "b", s |-> "", cls |-> "", min |-> 0, max |-> 0, lazy |-> FALSE]

\* $
EndAnchor == [k |-> "end", s |-> "", cls |-> "", min |-> 0, max |-> 0, lazy |-> FALSE]

\* cls is "w" (\w), "s" (\s), "d" (\d), "dot" (. without DOTALL), "all"
\* (. with DOTALL), "set" ([chars]), "neg" ([^chars]), "negs" ([^chars\s]) or
\* "wsset" ([\w\schars])
Rep(cls, chars, min, max, lazy) ==
    [k |-> "cls", s |-> chars, cls |-> cls, min |-> min, max |-> max, lazy |-> lazy]

Plus(cls) == Rep(cls, "", 1, Unbounded, FALSE)

Star(cls) == Rep(cls, "", 0, Unbounded, FALSE)

InClass(a, c) ==
    CASE a.cls = "w"    -> c \in WordChars
      [] a.cls = "s"    -> c \in SpaceChars
      [] a.cls = "d"    -> c \in DigitChars
      [] a.cls = "dot"  -> c # "\n"
      [] a.cls = "all"  -> TRUE
      [] a.cls = "set"  -> c \in CharsOf(a.s)
      [] a.cls = "neg"  -> c \notin CharsOf(a.s)
      [] a.cls = "negs" -> c \notin CharsOf(a.s) /\ c \notin SpaceChars
      [] a.cls = "wsset" -> c \in WordChars \/ c \in SpaceChars \/ c \in CharsOf(a.s)

\* is the character at position i (1-based) a word character; FALSE outside s
IsWordAt(s, i) == i >= 1 /\ i <= Len(s) /\ Char(s, i) \in WordChars

\* how many characters from position i on lie in the class of atom a, up to a.max
RunLen(a, s, i) ==
    LET Capped(run) == IF a.max # Unbounded /\ a.max < run THEN a.max ELSE run
    IN  Capped(SetMin({n \in 0..(Len(s) - i + 1) :
                          n = Len(s) - i + 1 \/ ~InClass(a, Char(s, i + n))}))

\* the position after the match of atoms k.. of pat at position i of s, as the
\* backtracking matcher finds it (greedy: longest repetition first; lazy:
\* shortest first); 0 when there is no match
RECURSIVE MatchEnd(_, _, _, _)
MatchEnd(pat, k, s, i) ==
    IF k > Len(pat) THEN i
    ELSE LET a == pat[k] IN
         CASE a.k = "lit" ->
                IF OccursAt(s, a.s, i)
                THEN MatchEnd(pat, k + 1, s, i + Len(a.s)) ELSE 0
           [] a.k = "b" ->
                IF IsWordAt(s, i - 1) # IsWordAt(s, i)
                THEN MatchEnd(pat, k + 1, s, i) ELSE 0
           [] a.k = "end" ->
                IF i = Len(s) + 1 \/ (i = Len(s) /\ Char(s, i) = "\n")
                THEN MatchEnd(pat, k + 1, s, i) ELSE 0
           [] a.k = "cls" ->
                \* good: the repetition counts after which the rest matches
                LET Taken(good) ==
                        IF good = {} THEN 0
                        ELSE MatchEnd(pat, k + 1, s,
                                      i + (IF a.lazy THEN SetMin(good) ELSE SetMax(good)))
                IN  Taken({n \in a.min..RunLen(a, s, i) :
                              MatchEnd(pat, k + 1, s, i + n) # 0})

\* re.search(alt, s) for one alternative
SearchAlt(alt, s) == \E i \in 1..(Len(s) + 1) : MatchEnd(alt, 1, s, i) # 0

\* re.match(alt, s): the match is tried at the start of s only
MatchAlt(alt, s) == MatchEnd(alt, 1, s, 1) # 0

\* re.search(regex, s, re.IGNORECASE) on an already lower-cased s: the literals
\* of the regex are folded to lower case
FoldAtom(a) == [a EXCEPT !.s = IF a.k = "lit" THEN Lower(a.s) ELSE a.s]

FoldAlt(alt) == [j \in 1..Len(alt) |-> FoldAtom(alt[j])]

SearchI(regex, s) == \E alt \in regex : SearchAlt(FoldAlt(alt), s)

\* \b(w1|w2|...)\b
Words(ws) == {<<WB, Lit(w), WB>> : w \in ws}

\* (l1|l2|...)
Lits(ls) == {<<Lit(l)>> : l \in ls}

(***************************************************************************)
(* SecurityValidator.__init__: the pattern families and the blacklist      *)
(***************************************************************************)
sql_patterns == <<
    Words({"SELECT", "INSERT", "UPDATE", "DELETE", "DROP", "CREATE", "ALTER",
           "EXEC", "UNION", "TRUNCATE", "GRANT", "REVOKE"}),
    Lits({"--", "#", "/*", "*/"}),
    {<<WB, Lit(w), Plus("s"), Plus("d"), Star("s"), Lit("="), Star("s"), Plus("d")>>
        : w \in {"OR", "AND"}},
    {<<Lit("'"), Star("s"), Lit(w), Star("s"), Lit("'")>> : w \in {"OR", "AND"}},
    {<<WB, Lit("union"), Plus("s"), Lit("select"), WB>>},
    {<<WB, Lit("into"), Plus("s"), Lit("outfile"), WB>>},
    Words({"load_file"}) >>

cmd_patterns == <<
    Words({"system", "exec", "eval", "shell_exec", "passthru", "popen",
           "proc_open", "subprocess", "os.system"}),
    \* (&&|\|\||;|`|\$\(|\${): a TLA+ string cannot hold the backtick, so no text
    \* of the model contains one and that alternative is left out
    Lits({"&&", "||", ";", "$(", "${"}),
    Words({"rm", "del", "format", "shutdown", "reboot", "kill", "killall", "pkill"}),
    Lits({"../", "..\\", "/etc/", "/bin/", "/usr/", "/var/"}),
    Words({"curl", "wget", "nc", "netcat", "telnet", "ssh", "ftp"}),
    Words({"chmod", "chown", "chgrp", "sudo", "su"}) >>

script_patterns == <<
    {<<Lit("<script"), Rep("neg", ">", 0, Unbounded, FALSE), Lit(">"),
       Rep("dot", "", 0, Unbounded, TRUE), Lit("</script>")>>},
    Lits({"javascript:", "vbscript:", "data:text/html"}),
    {<<Lit("on"), Plus("w"), Star("s"), Lit("=")>>},
    Lits({"<iframe", "<object", "<embed", "<form", "<input"}),
    {<<Lit("expression"), Star("s"), Lit("(")>>, <<Lit("@import")>>,
     <<Lit("url"), Star("s"), Lit("(")>>},
    {<<Lit("<svg"), Rep("neg", ">", 0, Unbounded, FALSE), Lit(">"),
       Rep("dot", "", 0, Unbounded, TRUE), Lit("</svg>")>>} >>

python_patterns == <<
    Words({"__import__", "getattr", "setattr", "delattr", "hasattr", "callable",
           "compile", "eval", "exec"}),
    Words({"globals", "locals", "vars", "dir", "input", "raw_input"}),
    Words({"open", "file", "execfile", "reload", "__builtins__"}),
    Words({"os.", "sys.", "subprocess.", "pickle.", "marshal."}) >>

blacklist == <<
    "system", "sudo", "rm -rf", "drop table", "exec", "eval",
    "shell", "cmd", "powershell", "bash", "chmod", "chown",
    "__import__", "getattr", "setattr", "delattr", "subprocess",
    "os.system", "sys.exit", "pickle.loads", "marshal.loads",
    "input()", "raw_input()", "file(", "open(", "execfile",
    "<script", "javascript:", "vbscript:", "onload=", "onerror=",
    "document.cookie", "window.location", "eval(", "setTimeout",
    "setInterval", "innerHTML", "outerHTML", "insertAdjacentHTML" >>

(***************************************************************************)
(* Python values: a str, an int, a float (both counted in tenths) or None   *)
(***************************************************************************)
PyStr(s) == [t |-> "str", s |-> s, n |-> 0]

PyInt(i) == [t |-> "int", s |-> "", n |-> i * 10]

PyFloat(tenths) == [t |-> "float", s |-> "", n |-> tenths]

PyNone == [t |-> "none", s |-> "", n |-> 0]

\* float('nan'): a float that every comparison answers False for
PyNaN == [t |-> "float", s |-> "nan", n |-> 0]

IsNaN(v) == v.t = "float" /\ v.s = "nan"

\* isinstance(v, str) and isinstance(v, (int, float))
IsStr(v) == v.t = "str"

IsNumber(v) == v.t \in {"int", "float"}

\* int(v) of a number: truncation towards zero
IntOf(v) == IF v.n >= 0 THEN v.n \div 10 ELSE 0 - ((0 - v.n) \div 10)

DigitVal(c) == CHOOSE d \in 0..9 : Char("0123456789", d + 1) = c

\* int(s) of a string of digits
RECURSIVE ParseInt(_)
ParseInt(s) == IF Len(s) = 0 THEN 0
               ELSE 10 * ParseInt(SubSeq(s, 1, Len(s) - 1)) + DigitVal(Char(s, Len(s)))

\* str(n) of a natural number
RECURSIVE ToStr(_)
ToStr(n) == IF n < 10 THEN Char("0123456789", n + 1)
            ELSE ToStr(n \div 10) \o Char("0123456789", (n % 10) + 1)

(***************************************************************************)
(* SecurityValidator._check_injection_patterns: the message of the         *)
(* ValueError it raises, "" when it returns                                *)
(***************************************************************************)
MatchesFamily(family, text_lower) ==
    \E j \in 1..Len(family) : SearchI(family[j], text_lower)

BlacklistHits(text_lower) ==
    {j \in 1..Len(blacklist) : Contains(text_lower, Lower(blacklist[j]))}

\* the four pattern loops, in the order of the code, each with its message
pattern_families == <<
    [patterns |-> sql_patterns,
     message  |-> "Potentially malicious SQL pattern detected"],
    [patterns |-> cmd_patterns,
     message  |-> "Potentially malicious command pattern detected"],
    [patterns |-> script_patterns,
     message  |-> "Potentially malicious script pattern detected"],
    [patterns |-> python_patterns,
     message  |-> "Potentially malicious Python code pattern detected"] >>

\* the first loop, from the f-th on, that finds a match (0: none does)
RECURSIVE FirstFamily(_, _)
FirstFamily(f, text_lower) ==
    IF f > Len(pattern_families) THEN 0
    ELSE IF MatchesFamily(pattern_families[f].patterns, text_lower) THEN f
    ELSE FirstFamily(f + 1, text_lower)

\* _check_injection_patterns without text.lower() and re.IGNORECASE
CheckInjectionCased(text) ==
    LET Found(family, keywords) ==
            IF family # 0 THEN pattern_families[family].message
            ELSE IF keywords # {}
            THEN "Blocked keyword detected: " \o blacklist[SetMin(keywords)]
            ELSE ""
    IN  Found(FirstFamily(1, text), BlacklistHits(text))

_check_injection_patterns(text) ==
    LET Found(family, keywords) ==
            IF family # 0 THEN pattern_families[family].message
            ELSE IF keywords # {}
            THEN "Blocked keyword detected: " \o blacklist[SetMin(keywords)]
            ELSE ""
        Checked(text_lower) ==
            Found(FirstFamily(1, text_lower), BlacklistHits(text_lower))
    IN  Checked(Lower(text))

(***************************************************************************)
(* SecurityValidator._sanitize_text_input                                  *)
(***************************************************************************)
Raise(msg) == [ok |-> FALSE, err |-> msg, text |-> ""]

_sanitize_text_input(v, max_length) ==
    \* injection: the message of _check_injection_patterns; text: the input
    \* after html.escape and the three replace calls (.replace('\x00', '')
    \* changes no text of the model)
    LET Sanitized(injection, text) ==
            IF injection # "" THEN Raise(injection)
            ELSE IF Len(text) > max_length
            THEN Raise("Input too long. Maximum " \o ToStr(max_length)
                       \o " characters allowed")
            ELSE [ok |-> TRUE, err |-> "", text |-> Strip(text)]
    IN  IF ~IsStr(v) THEN Raise("Input must be a string")
        ELSE Sanitized(_check_injection_patterns(v.s),
                       ReplaceChar(ReplaceChar(HtmlEscape(v.s, TRUE), "\r", ""),
                                   "\n", " "))

(***************************************************************************)
(* SecurityValidator.validate_domain_input                                 *)
(***************************************************************************)
current_year == 2025

domain_regex == <<Rep("wsset", "-.()+&/", 1, Unbounded, FALSE), EndAnchor>>

years_regex == <<Rep("d", "", 4, 4, FALSE), Lit("-"), Rep("d", "", 4, 4, FALSE), EndAnchor>>

Invalid(msg) == [ok |-> FALSE, err |-> msg, domain |-> "", years |-> "",
                 paper_count |-> 0, temperature |-> 0]

\* The checks run in the order of the code: the domain (d is its
\* _sanitize_text_input), then the years (y likewise), then the year range,
\* the paper count (count is int(paper_count), which raises ValueError for
\* nan) and the temperature (nan < 0.1 and nan > 2.0 are both False).
validate_domain_input(domain, years, paper_count, temperature) ==
    LET CheckDomain(d) ==
          LET CheckYears(y) ==
                LET CheckRanges(year_start, year_end, count) ==
                      IF year_start < 1990 \/ year_end > current_year
                      THEN Invalid("Years must be between 1990 and "
                                   \o ToStr(current_year))
                      ELSE IF year_start > year_end
                      THEN Invalid("Start year must be less than or equal to end year")
                      ELSE IF ~IsNumber(paper_count)
                      THEN Invalid("Paper count must be a number")
                      ELSE IF IsNaN(paper_count)
                      THEN Invalid("cannot convert float NaN to integer")
                      ELSE IF count < 1 \/ count > 50
                      THEN Invalid("Paper count must be between 1 and 50")
                      ELSE IF ~IsNumber(temperature)
                      THEN Invalid("Temperature must be a number")
                      ELSE IF ~IsNaN(temperature)
                              /\ (temperature.n < 1 \/ temperature.n > 20)
                      THEN Invalid("Temperature must be between 0.1 and 2.0")
                      ELSE [ok |-> TRUE, err |-> "", domain |-> d.text,
                            years |-> y.text, paper_count |-> count,
                            temperature |-> temperature.n]
                IN  IF ~IsStr(years)
                    THEN Invalid("Years must be a string in format 'YYYY-YYYY'")
                    ELSE IF ~y.ok THEN Invalid(y.err)
                    ELSE IF ~MatchAlt(years_regex, y.text)
                    THEN Invalid("Years must be in format 'YYYY-YYYY'")
                    ELSE CheckRanges(ParseInt(SubSeq(y.text, 1, 4)),
                                     ParseInt(SubSeq(y.text, 6, 9)),
                                     IntOf(paper_count))
          IN  IF ~IsStr(domain) THEN Invalid("Domain must be a string")
              ELSE IF ~d.ok THEN Invalid(d.err)
              ELSE IF Len(Strip(d.text)) < 2
              THEN Invalid("Domain must be at least 2 characters long")
              ELSE IF ~MatchAlt(domain_regex, d.text)
              THEN Invalid("Domain contains invalid characters. Only letters, numbers, spaces, hyphens, dots, and parentheses are allowed")
              ELSE CheckYears(_sanitize_text_input(years, 20))
    IN  CheckDomain(_sanitize_text_input(domain, 100))

(***************************************************************************)
(* SecurityValidator.sanitize_output                                       *)
(***************************************************************************)
\* re.sub(alt, '', s, flags=re.IGNORECASE) from position i on: every match,
\* leftmost first and not overlapping, is removed (low is s.lower(); none of
\* the patterns below matches the empty string)
RECURSIVE SubI(_, _, _, _)
SubI(alt, s, low, i) ==
    \* starts: the positions from i on where a match begins
    LET Cut(starts) ==
            IF starts = {} THEN SubSeq(s, i, Len(s))
            ELSE SubSeq(s, i, SetMin(starts) - 1)
                 \o SubI(alt, s, low, MatchEnd(alt, 1, low, SetMin(starts)))
    IN  Cut({j \in i..Len(s) : MatchEnd(alt, 1, low, j) > j})

\* re.sub(alt, '', s), and with flags=re.IGNORECASE
ReSub(alt, s, ignorecase) == SubI(alt, s, IF ignorecase THEN Lower(s) ELSE s, 1)

\* the re.sub calls of a function, one after the other
RECURSIVE RemoveAll(_, _, _)
RemoveAll(patterns, s, ignorecase) ==
    IF Len(patterns) = 0 THEN s
    ELSE RemoveAll(Tail(patterns), ReSub(Head(patterns), s, ignorecase), ignorecase)

\* <script[^>]*>.*?</script> with DOTALL
script_block == <<Lit("<script"), Rep("neg", ">", 0, Unbounded, FALSE), Lit(">"),
                  Rep("all", "", 0, Unbounded, TRUE), Lit("</script>")>>

\* <iframe[^>]*>.*?</iframe> with DOTALL
iframe_block == <<Lit("<iframe"), Rep("neg", ">", 0, Unbounded, FALSE), Lit(">"),
                  Rep("all", "", 0, Unbounded, TRUE), Lit("</iframe>")>>

\* on\w+\s*=\s*["\'][^"\']*["\']
handler_attr == <<Lit("on"), Plus("w"), Star("s"), Lit("="), Star("s"),
                  Rep("set", "\"'", 1, 1, FALSE), Rep("neg", "\"'", 0, Unbounded, FALSE),
                  Rep("set", "\"'", 1, 1, FALSE)>>

\* javascript:[^"\'>\s]*
javascript_uri == <<Lit("javascript:"), Rep("negs", "\"'>", 0, Unbounded, FALSE)>>

\* str(v) of a value that is not a str
StrOf(v) == CASE v.t = "none"  -> "None"
              [] v.t = "int"   -> ToStr(v.n \div 10)
              [] v.t = "float" -> ToStr(v.n \div 10) \o "." \o ToStr(v.n % 10)
              [] OTHER         -> v.s

sanitize_output(v) ==
    IF ~IsStr(v) THEN StrOf(v)
    ELSE RemoveAll(<<script_block, iframe_block, handler_attr, javascript_uri>>,
                   HtmlEscape(v.s, FALSE), TRUE)

(***************************************************************************)
(* SecurityValidator.validate_url                                          *)
(***************************************************************************)
scheme_chars == CharsOf(Uppercase) \cup CharsOf(Lowercase) \cup DigitChars
                \cup {"+", "-", "."}

\* urllib.parse.urlparse(url): the scheme (lower-cased) and the netloc (as
\* written), or the ValueError it raises on an unbalanced bracket in the
\* netloc.  No URL of the model holds white space or control characters.
\* the characters of s before the first "/", "?" or "#"
UpToDelimiter(s) ==
    SubSeq(s, 1, SetMin({j \in 1..(Len(s) + 1) :
                            j = Len(s) + 1 \/ Char(s, j) \in {"/", "?", "#"}}) - 1)

\* urlparse(url): the scheme, lower-cased, and the netloc; raised where
\* urlparse raises ValueError (a bracket of an IPv6 host without its pair)
urlparse(url) ==
    LET Parsed(scheme, netloc) ==
            [raised |-> Contains(netloc, "[") # Contains(netloc, "]"),
             scheme |-> scheme, netloc |-> netloc]
        Netloc(rest) ==
            IF StartsWith(rest, "//") THEN UpToDelimiter(Slice(rest, 2, Len(rest)))
            ELSE ""
        Split(i) ==
            IF /\ i > 0
               /\ Char(url, 1) \in CharsOf(Uppercase) \cup CharsOf(Lowercase)
               /\ CharsOf(Slice(url, 0, i)) \subseteq scheme_chars
            THEN Parsed(Lower(Slice(url, 0, i)), Netloc(Slice(url, i + 1, Len(url))))
            ELSE Parsed("", Netloc(url))
    IN  Split(Find(url, ":"))

private_prefixes == {"localhost", "127.", "192.168.", "10.", "172."}

validate_url(v) ==
    LET Allowed(parsed) ==
            IF parsed.raised THEN FALSE
            ELSE IF parsed.scheme \notin {"http", "https"} THEN FALSE
            ELSE IF parsed.netloc = "" THEN FALSE
            ELSE IF \E prefix \in private_prefixes : StartsWith(parsed.netloc, prefix)
            THEN FALSE
            ELSE IF parsed.scheme \in {"file", "ftp", "javascript", "data"} THEN FALSE
            ELSE TRUE
    IN  IF ~IsStr(v) THEN FALSE ELSE Allowed(urlparse(v.s))

(***************************************************************************)
(* PaperRetriever (paper_retriever.py)                                     *)
(***************************************************************************)

\* \$.+?\$
latex_equation == <<Lit("$"), Rep("dot", "", 1, Unbounded, TRUE), Lit("$")>>

\* \\[a-z]{1,}
latex_command == <<Lit("\\"), Rep("set", Lowercase, 1, Unbounded, FALSE)>>

_clean_text(text) == Strip(RemoveAll(<<latex_equation, latex_command>>, text, FALSE))

\* The embedding service: one vector per text, the same vector for the same
\* text.  A vector is a point on a line (the model keeps one coordinate of the
\* 384); IndexFlatL2 ranks by squared distance.
EmbeddingTable == <<
    [text |-> "Qubits q",                vec |-> 0],
    [text |-> "Qubits (v2) q",           vec |-> 1],
    [text |-> "Folds $x$ a & \\alpha b", vec |-> 10] >>

encode(text) ==
    LET hit == {j \in 1..Len(EmbeddingTable) : EmbeddingTable[j].text = text}
    IN  EmbeddingTable[SetMin(hit)].vec

L2(u, v) == (u - v) * (u - v)

\* one row of IndexFlatL2.search(query, k=2) over the vectors all (ids from 0):
\* the two nearest ids by increasing distance, -1 for a missing neighbour.
\* Which of several equidistant vectors comes first is not specified.
KnnRows(all, q) ==
    LET ids == 0..(Len(all) - 1)
        d(j) == L2(all[j + 1], q)
    IN  IF Len(all) = 0 THEN {<<0 - 1, 0 - 1>>}
        ELSE IF Len(all) = 1 THEN {<<0, 0 - 1>>}
        ELSE {<<a, b>> : a \in ids, b \in ids} \cap
             {r \in ids \X ids :
                 /\ r[1] # r[2]
                 /\ d(r[1]) <= d(r[2])
                 /\ \A j \in ids \ {r[1], r[2]} : d(j) >= d(r[2])}

\* every answer IndexFlatL2.search(queries, k=2) may give
RECURSIVE KnnAnswers(_, _)
KnnAnswers(all, queries) ==
    IF Len(queries) = 0 THEN {<<>>}
    ELSE {<<r>> \o rest : r \in KnnRows(all, queries[1]),
                          rest \in KnnAnswers(all, SubSeq(queries, 2, Len(queries)))}

\* the loop over range(len(indices)): unique_indices after rows i..
RECURSIVE UniqueIndices(_, _, _)
UniqueIndices(indices, i, unique) ==
    IF i > Len(indices) THEN unique
    ELSE IF \/ Len(indices[i]) < 2
            \/ indices[i][2] = 0 - 1
            \/ indices[i][1] \notin unique
         THEN UniqueIndices(indices, i + 1, unique \cup {indices[i][1]})
         ELSE UniqueIndices(indices, i + 1, unique)

\* sorted(list(S)) of a set of integers
RECURSIVE Sorted(_)
Sorted(S) == IF S = {} THEN <<>> ELSE <<SetMin(S)>> \o Sorted(S \ {SetMin(S)})

\* papers[i] of a Python list: a negative i counts from the end
PyItem(list, i) == IF i >= 0 THEN list[i + 1] ELSE list[Len(list) + i + 1]

\* [papers[i] for i in sorted(list(valid_indices))][:count], as the positions kept
\* Representatives without the [:count]
RepresentativesUntruncated(n_papers, unique_indices, count) ==
    Sorted({i \in unique_indices : i < n_papers})

Representatives(n_papers, unique_indices, count) ==
    LET Truncated(order) ==
            SubSeq(order, 1, IF count < Len(order) THEN count ELSE Len(order))
    IN  Truncated(Sorted({i \in unique_indices : i < n_papers}))

default_url == "https://arxiv.org/"

\* ProcessPaper with the result's url kept whatever validate_url says
ProcessPaperUrlKept(p) ==
    [title     |-> sanitize_output(PyStr(_clean_text(p.title))),
     authors   |-> [j \in 1..Len(p.authors) |-> sanitize_output(PyStr(p.authors[j]))],
     year      |-> p.year,
     abstract  |-> sanitize_output(PyStr(_clean_text(p.abstract))),
     url       |-> p.url,
     citations |-> 0]

\* the body of the loop "for p in papers": the Paper built from one result
ProcessPaper(p) ==
    \* cleaned: _clean_text of the title and of the abstract; safe:
    \* sanitize_output of these and of each author
    LET Built(safe) ==
            [title     |-> safe[1],
             authors   |-> SubSeq(safe, 3, Len(safe)),
             year      |-> p.year,
             abstract  |-> safe[2],
             url       |-> IF validate_url(PyStr(p.url)) THEN p.url ELSE default_url,
             citations |-> 0]
        Safe(texts) == Built([j \in 1..Len(texts) |-> sanitize_output(PyStr(texts[j]))])
        Cleaned(texts) == [j \in 1..Len(texts) |-> _clean_text(texts[j])]
    IN  Safe(Cleaned(<<p.title, p.abstract>>) \o p.authors)

\* texts = [p["title"] + " " + p["abstract"] for p in papers], encoded
Embeddings(results) ==
    [j \in 1..Len(results) |-> encode(results[j].title \o " " \o results[j].abstract)]

\* kind is "validation" for the Validator's ValueError, "retrieval" for the
\* ValueError that wraps an ArxivError
SearchFailed(kind, msg, net, idx) ==
    [ok |-> FALSE, kind |-> kind, err |-> msg, papers |-> <<>>, net |-> net,
     index |-> idx]

\* PaperRetriever.search_papers on a retriever whose self.index holds idx.
\* source is the literature source's answer to the query ([error, results]),
\* indices the answer of self.index.search.  net lists the external calls made.
search_papers(idx, domain, years, count, source, indices) ==
    LET dedup == Len(source.results) > 1
        Answer(papers) ==
            [ok     |-> TRUE,
             kind   |-> "",
             err    |-> "",
             papers |-> [j \in 1..Len(papers) |-> ProcessPaper(papers[j])],
             net    |-> IF dedup THEN <<"literature", "embedding">>
                        ELSE <<"literature">>,
             index  |-> IF dedup THEN idx \o Embeddings(source.results) ELSE idx]
        Kept(kept) == Answer([j \in 1..Len(kept) |-> PyItem(source.results, kept[j])])
        Validated(validated) ==
            IF ~validated.ok THEN SearchFailed("validation", validated.err, <<>>, idx)
            ELSE IF source.error
            THEN SearchFailed("retrieval", "arXiv API Error: " \o source.message,
                              <<"literature">>, idx)
            ELSE IF dedup
            THEN Kept(Representatives(Len(source.results),
                                      UniqueIndices(indices, 1, {}),
                                      validated.paper_count))
            ELSE Answer(source.results)
    IN  Validated(validate_domain_input(domain, years, count, PyFloat(7)))

(***************************************************************************)
(* json.loads.  A JSON value is [t, s, items]: t is "str" (s the decoded    *)
(* text), "num" (s the lexeme), "lit" (s is true, false or null), "arr"    *)
(* (items the values) or "obj" (items the members [key, val] in order).    *)
(* Not modelled, and in no text of the model: \u escapes, exponents, NaN   *)
(* and Infinity.                                                           *)
(***************************************************************************)
JVal(t, str, items) == [t |-> t, s |-> str, items |-> items]

JFail == [ok |-> FALSE, val |-> JVal("lit", "null", <<>>), next |-> 0]

JOk(val, next) == [ok |-> TRUE, val |-> val, next |-> next]

json_whitespace == {" ", "\t", "\n", "\r"}

RECURSIVE SkipWs(_, _)
SkipWs(s, i) == IF i <= Len(s) /\ Char(s, i) \in json_whitespace
                THEN SkipWs(s, i + 1) ELSE i

\* the character an escape \c stands for, "" when \c is no escape
Unescape(c) == CASE c = "\"" -> "\""
                 [] c = "\\" -> "\\"
                 [] c = "/"  -> "/"
                 [] c = "n"  -> "\n"
                 [] c = "t"  -> "\t"
                 [] c = "r"  -> "\r"
                 [] c = "f"  -> "\f"
                 [] OTHER    -> ""

\* the string whose opening quote is before position i: its text so far is acc
RECURSIVE ParseChars(_, _, _)
ParseChars(s, i, acc) ==
    IF i > Len(s) THEN JFail
    ELSE LET c == Char(s, i) IN
         IF c = "\"" THEN JOk(JVal("str", acc, <<>>), i + 1)
         ELSE IF c \in {"\n", "\t", "\r", "\f"} THEN JFail
         ELSE IF c = "\\"
         THEN IF i + 1 <= Len(s) /\ Unescape(Char(s, i + 1)) # ""
              THEN ParseChars(s, i + 2, acc \o Unescape(Char(s, i + 1)))
              ELSE JFail
         ELSE ParseChars(s, i + 1, acc \o c)

RECURSIVE DigitsEnd(_, _)
DigitsEnd(s, i) == IF i <= Len(s) /\ Char(s, i) \in DigitChars
                   THEN DigitsEnd(s, i + 1) ELSE i

\* -?(0|[1-9]\d*)(\.\d+)?
ParseNumber(s, i) ==
    LET a  == IF i <= Len(s) /\ Char(s, i) = "-" THEN i + 1 ELSE i
        b  == DigitsEnd(s, a)
        c  == IF b <= Len(s) /\ Char(s, b) = "." /\ DigitsEnd(s, b + 1) > b + 1
              THEN DigitsEnd(s, b + 1) ELSE b
        e  == IF b > a + 1 /\ Char(s, a) = "0" THEN a + 1 ELSE c
    IN  IF b = a THEN JFail
        ELSE JOk(JVal("num", SubSeq(s, i, e - 1), <<>>), e)

RECURSIVE ParseValue(_, _), ParseItems(_, _, _), ParseMembers(_, _, _)
\* a value at position i
ParseValue(s, i) ==
    IF i > Len(s) THEN JFail
    ELSE LET c == Char(s, i) IN
         CASE c = "\"" -> ParseChars(s, i + 1, "")
           [] c = "{" ->
                IF SkipWs(s, i + 1) <= Len(s) /\ Char(s, SkipWs(s, i + 1)) = "}"
                THEN JOk(JVal("obj", "", <<>>), SkipWs(s, i + 1) + 1)
                ELSE ParseMembers(s, SkipWs(s, i + 1), <<>>)
           [] c = "[" ->
                IF SkipWs(s, i + 1) <= Len(s) /\ Char(s, SkipWs(s, i + 1)) = "]"
                THEN JOk(JVal("arr", "", <<>>), SkipWs(s, i + 1) + 1)
                ELSE ParseItems(s, SkipWs(s, i + 1), <<>>)
           [] OccursAt(s, "true", i)  -> JOk(JVal("lit", "true", <<>>), i + 4)
           [] OccursAt(s, "false", i) -> JOk(JVal("lit", "false", <<>>), i + 5)
           [] OccursAt(s, "null", i)  -> JOk(JVal("lit", "null", <<>>), i + 4)
           [] OTHER -> ParseNumber(s, i)

\* the items of an array from position i on, after the items acc
ParseItems(s, i, acc) ==
    \* v: the item at i; j: the position of what follows it
    LET Close(v, j) ==
            IF ~v.ok \/ j > Len(s) THEN JFail
            ELSE IF Char(s, j) = "]"
            THEN JOk(JVal("arr", "", Append(acc, v.val)), j + 1)
            ELSE IF Char(s, j) = ","
            THEN ParseItems(s, SkipWs(s, j + 1), Append(acc, v.val))
            ELSE JFail
        Item(v) == Close(v, SkipWs(s, v.next))
    IN  Item(ParseValue(s, i))

\* the members of an object from position i on, after the members acc
ParseMembers(s, i, acc) ==
    \* key: the string at i; colon: the position after it; v: the value
    \* after the colon; j: the position of what follows it
    LET Close(v, j, more) ==
            IF ~v.ok \/ j > Len(s) THEN JFail
            ELSE IF Char(s, j) = "}" THEN JOk(JVal("obj", "", more), j + 1)
            ELSE IF Char(s, j) = "," THEN ParseMembers(s, SkipWs(s, j + 1), more)
            ELSE JFail
        Value(key, v) ==
            Close(v, SkipWs(s, v.next), Append(acc, [key |-> key.val.s, val |-> v.val]))
        Colon(key, colon) ==
            IF ~key.ok \/ colon > Len(s) \/ Char(s, colon) # ":" THEN JFail
            ELSE Value(key, ParseValue(s, SkipWs(s, colon + 1)))
        Key(key) == Colon(key, SkipWs(s, key.next))
    IN  Key(IF i <= Len(s) /\ Char(s, i) = "\"" THEN ParseChars(s, i + 1, "")
            ELSE JFail)

\* json.loads(s): ok is FALSE where it raises JSONDecodeError
json_loads(s) ==
    LET Whole(v) == IF v.ok /\ SkipWs(s, v.next) = Len(s) + 1 THEN v ELSE JFail
    IN  Whole(ParseValue(s, SkipWs(s, 1)))

(***************************************************************************)
(* config.py: the pydantic models Paper, ReviewOutput and DomainInput      *)
(***************************************************************************)
\* dict.get over the members of a JSON object: the last member of that key
HasKey(obj, key) == \E j \in 1..Len(obj.items) : obj.items[j].key = key

Get(obj, key) ==
    obj.items[SetMax({j \in 1..Len(obj.items) : obj.items[j].key = key})].val

IsDigits(str) == Len(str) > 0 /\ CharsOf(str) \subseteq DigitChars

\* is the text an integer: -?digits, for a number also with a fraction of zeros
IsIntText(str, fraction) ==
    LET body == IF StartsWith(str, "-") THEN SubSeq(str, 2, Len(str)) ELSE str
        dot  == Find(body, ".")
    IN  IF dot = 0 - 1 THEN IsDigits(body)
        ELSE /\ fraction
             /\ IsDigits(Slice(body, 0, dot))
             /\ CharsOf(Slice(body, dot + 1, Len(body))) = {"0"}

IntText(str) ==
    LET body == IF StartsWith(str, "-") THEN SubSeq(str, 2, Len(str)) ELSE str
        dot  == Find(body, ".")
        n    == ParseInt(IF dot = 0 - 1 THEN body ELSE Slice(body, 0, dot))
    IN  IF StartsWith(str, "-") THEN 0 - n ELSE n

\* a field annotated str takes a string only
StrField(obj, key) == HasKey(obj, key) /\ Get(obj, key).t = "str"

\* a field annotated int takes an integer, an integral float, a bool or a
\* string of digits
IntField(obj, key) ==
    /\ HasKey(obj, key)
    /\ LET v == Get(obj, key)
       IN  \/ v.t = "num" /\ IsIntText(v.s, TRUE)
           \/ v.t = "str" /\ IsIntText(v.s, FALSE)
           \/ v.t = "lit" /\ v.s \in {"true", "false"}

IntFieldValue(v) == IF v.t = "lit" THEN (IF v.s = "true" THEN 1 ELSE 0)
                    ELSE IntText(v.s)

\* Paper(**v) accepts the JSON value v
PaperValid(v) ==
    /\ v.t = "obj"
    /\ StrField(v, "title") /\ StrField(v, "abstract") /\ StrField(v, "url")
    /\ IntField(v, "year") /\ IntField(v, "citations")
    /\ HasKey(v, "authors")
    /\ Get(v, "authors").t = "arr"
    /\ \A j \in 1..Len(Get(v, "authors").items) : Get(v, "authors").items[j].t = "str"

PaperOf(v) ==
    [title     |-> Get(v, "title").s,
     authors   |-> [j \in 1..Len(Get(v, "authors").items) |->
                       Get(v, "authors").items[j].s],
     year      |-> IntFieldValue(Get(v, "year")),
     abstract  |-> Get(v, "abstract").s,
     url       |-> Get(v, "url").s,
     citations |-> IntFieldValue(Get(v, "citations"))]

\* ReviewOutput(**obj) accepts the JSON object obj; where it does not,
\* pydantic raises ValidationError
ReviewOutputValid(obj) ==
    /\ StrField(obj, "overview") /\ StrField(obj, "trends")
    /\ StrField(obj, "challenges") /\ StrField(obj, "future_directions")
    /\ HasKey(obj, "key_papers")
    /\ Get(obj, "key_papers").t = "arr"
    /\ \A j \in 1..Len(Get(obj, "key_papers").items) :
          PaperValid(Get(obj, "key_papers").items[j])

ReviewOutput(overview, key_papers, trends, challenges, future_directions) ==
    [overview |-> overview, key_papers |-> key_papers, trends |-> trends,
     challenges |-> challenges, future_directions |-> future_directions]

ReviewOutputOf(obj) ==
    ReviewOutput(Get(obj, "overview").s,
                 [j \in 1..Len(Get(obj, "key_papers").items) |->
                     PaperOf(Get(obj, "key_papers").items[j])],
                 Get(obj, "trends").s, Get(obj, "challenges").s,
                 Get(obj, "future_directions").s)

\* ^[\w\s\-\.]+$ (the range of CJK characters is outside the model's texts)
domain_input_regex == <<Rep("wsset", "-.", 1, Unbounded, FALSE), EndAnchor>>

\* DomainInput(domain=..., years=..., paper_count=..., temperature=...) of
\* validated values: ok is FALSE where pydantic raises ValidationError
DomainInput(domain, years, paper_count, temperature) ==
    IF /\ Len(domain) >= 3 /\ Len(domain) <= 100
       /\ MatchAlt(domain_input_regex, domain)
       /\ paper_count >= 1 /\ paper_count <= 20
       /\ temperature >= 1 /\ temperature <= 20
    THEN [ok |-> TRUE, domain |-> Strip(domain), years |-> years,
          paper_count |-> paper_count, temperature |-> temperature]
    ELSE [ok |-> FALSE, domain |-> "", years |-> "", paper_count |-> 0,
          temperature |-> 0]

(***************************************************************************)
(* ReviewGenerator (review_generator.py)                                   *)
(***************************************************************************)
\* Accumulate with the content put in front of what was accumulated
AccumulateInFront(full_response, chunk) ==
    (IF IsStr(chunk) THEN chunk.s ELSE "") \o full_response

\* the body of the loop over the chunks: content = ... or "";
\* full_response += content.  A chunk is its content, a str or None.
Accumulate(full_response, chunk) ==
    full_response \o (IF IsStr(chunk) THEN chunk.s ELSE "")

\* _stream_deepseek and _stream_openai: the loop over the chunks
RECURSIVE _stream(_, _)
_stream(chunks, full_response) ==
    IF Len(chunks) = 0 THEN full_response
    ELSE _stream(Tail(chunks), Accumulate(full_response, chunks[1]))

NoReview == ReviewOutput("", <<>>, "", "", "")

fallback_prefix ==
    "Error: The model did not return a valid JSON object. Below is the raw response from the model:\n\n---\n\n"

\* papers[:n]
FirstN(list, n) == SubSeq(list, 1, IF n < Len(list) THEN n ELSE Len(list))

\* the except json.JSONDecodeError block
Fallback(papers, response) ==
    ReviewOutput(fallback_prefix \o sanitize_output(PyStr(response)),
                 FirstN(papers, 3), "", "", "")

\* the try block on the sanitized response: the first "{" to the last "}"
Extract(papers, response) ==
    \* parsed: json.loads of the text between the braces, or the
    \* JSONDecodeError raised when there is none
    LET Structured(parsed) ==
            IF ~parsed.ok THEN [raised |-> "", review |-> Fallback(papers, response)]
            ELSE IF ReviewOutputValid(parsed.val)
            THEN [raised |-> "", review |-> ReviewOutputOf(parsed.val)]
            ELSE [raised |-> "ValidationError", review |-> NoReview]
        Located(json_start, json_end) ==
            Structured(IF json_start # 0 - 1 /\ json_end > json_start
                       THEN json_loads(Slice(response, json_start, json_end))
                       ELSE JFail)
    IN  Located(Find(response, "{"), RFind(response, "}") + 1)

\* ReviewGenerator.generate_with_params; chunks is what the generation service
\* streams back.  raised names the exception that reaches the caller ("" when
\* a ReviewOutput is returned), net lists the external calls made.
generate_with_params(papers, domain, temperature, model, chunks) ==
    LET Answered(out) ==
            [raised |-> out.raised, err |-> "", review |-> out.review,
             net    |-> <<IF model = "deepseek" THEN "generation:deepseek"
                          ELSE "generation:openai">>]
        Validated(validated) ==
            IF ~validated.ok
            THEN [raised |-> "ValueError", err |-> validated.err, review |-> NoReview,
                  net |-> <<>>]
            ELSE Answered(Extract(papers, sanitize_output(PyStr(_stream(chunks, "")))))
    IN  Validated(validate_domain_input(domain, PyStr("2020-2024"),
                                        PyInt(Len(papers)), temperature))

(***************************************************************************)
(* Bounds and input sets                                                   *)
(***************************************************************************)
\* longest generated domain text
MaxDomainLen == 3

\* longest generated text given to sanitize_output
MaxTextLen == 3

\* applications of sanitize_output to its own output
MaxApplications == 2

\* chunks of a generated stream
MaxFragments == 3

\* calls of search_papers on one PaperRetriever
MaxSearches == 2

\* every string of at most n characters of the alphabet
RECURSIVE StringsUpTo(_, _)
StringsUpTo(alphabet, n) ==
    IF n = 0 THEN {""}
    ELSE StringsUpTo(alphabet, n - 1)
         \cup {str \o c : str \in StringsUpTo(alphabet, n - 1), c \in alphabet}

\* the malicious_inputs of test_security.py
malicious_inputs == {
    "'; DROP TABLE users; --",
    "Machine Learning' OR 1=1 --",
    "ML UNION SELECT * FROM secrets",
    "exec('rm -rf /')",
    "<script>alert('xss')</script>",
    "javascript:alert('hack')",
    "__import__('os').system('ls')",
    "eval('malicious code')",
    "system('cat /etc/passwd')",
    "ML && curl evil.com",
    "../../../etc/passwd",
    "python -c 'import os; os.system(\"whoami\")'" }

\* every blacklist entry as written, in upper-case-first form and inside a word
UpperFirst(str) ==
    LET c == Char(str, 1)
        up == {i \in 1..26 : Char(Lowercase, i) = c}
    IN  IF up = {} THEN "X" \o str
        ELSE Char(Uppercase, SetMin(up)) \o SubSeq(str, 2, Len(str))

BlacklistTexts ==
    UNION {{blacklist[j], UpperFirst(blacklist[j]), "re" \o blacklist[j] \o "s"}
              : j \in 1..Len(blacklist)}

\* "A" * 100
hundred_a == "AAAAAAAAAAAAAAAAAAAAAAAAAAAAAAAAAAAAAAAAAAAAAAAAAAAAAAAAAAAAAAAAAAAAAAAAAAAAAAAAAAAAAAAAAAAAAAAAAAAA"

DomainTexts ==
    {"Machine Learning", "Large Language Models", "R&D", "C++", "AI/ML (deep)",
     "Operating System", "Recommender Systems", "File formats", "sy\rstem",
     "deep\nlearning", "ml", "x", " x ",
     hundred_a, hundred_a \o "A", hundred_a \o " ", hundred_a \o "\r",
     hundred_a \o hundred_a}
    \cup malicious_inputs \cup BlacklistTexts
    \cup StringsUpTo({"s", "u", "U", "&", "-", " "}, MaxDomainLen)

YearsInputs == {PyStr("2020-2024"), PyStr("1990-2025"), PyStr("1989-2024"),
                PyStr("2020-2026"), PyStr("2024-2020"), PyStr("20-24"), PyNone}

CountInputs == {PyInt(0), PyInt(1), PyInt(5), PyInt(50), PyInt(51), PyFloat(509),
                PyFloat(5), PyNaN, PyStr("5")}

TemperatureInputs == {PyFloat(0), PyFloat(1), PyFloat(7), PyFloat(20), PyFloat(21),
                      PyInt(1), PyNaN, PyStr("0.7")}

Query(domain, years, paper_count, temperature) ==
    [domain |-> domain, years |-> years, paper_count |-> paper_count,
     temperature |-> temperature]

\* every domain with the test's other arguments, and a few domains with every
\* combination of the other arguments
ValidatorCalls ==
    {Query(PyStr(d), PyStr("2020-2024"), PyInt(5), PyFloat(7)) : d \in DomainTexts}
    \cup {Query(d, y, c, t) :
            d \in {PyStr("Machine Learning"), PyStr("rm -rf"), PyNone},
            y \in YearsInputs, c \in CountInputs, t \in TemperatureInputs}

SanitizeInputs ==
    {PyStr(str) : str \in StringsUpTo({"a", "&", "<", ">", ";"}, MaxTextLen)}
    \cup {PyStr("<script>alert(1)</script>"), PyStr("onload='x'"),
          PyStr("javascript:alert(1)"), PyStr("R&amp;D"), PyInt(5), PyNone}

\* a URL written from its parts: scheme, separator, authority, path
UrlInputs ==
    {[scheme |-> sc, sep |-> sep, userinfo |-> ui, host |-> h, port |-> po, path |-> pa,
      url |-> PyStr(sc \o sep \o ui \o h \o po \o pa)] :
        sc  \in {"http", "https", "HTTPS", "javascript", "data", "file", "ftp"},
        sep \in {"://", ":"},
        ui  \in {"", "user@"},
        h   \in {"arxiv.org", "localhost", "LOCALHOST", "127.0.0.1", "10.0.0.1",
                 "192.168.1.1", "172.16.0.1", "[::1", ""},
        po  \in {"", ":8080"},
        pa  \in {"", "/abs/2101.00001"}}
    \cup {[scheme |-> "", sep |-> "", userinfo |-> "", host |-> "", port |-> "",
           path |-> "", url |-> PyNone]}

\* what the literature source holds: arxiv.Result fields
RawResult(title, abstract, url) ==
    [title |-> title, authors |-> <<"A. <B>">>, year |-> 2021,
     abstract |-> abstract, url |-> url]

quantum   == RawResult("Qubits", "q", "https://arxiv.org/abs/2101.00001")

quantum_2 == RawResult("Qubits (v2)", "q", "http://arxiv.org/abs/2101.00002v2")

protein   == RawResult("Folds $x$", "a & \\alpha b", "ftp://arxiv.org/abs/2101.00003")

\* what the literature source holds, newest first
Corpus == <<quantum, quantum_2, protein>>

\* the entries of list at the positions of keep, in the order of list
RECURSIVE Select(_, _)
Select(list, keep) ==
    IF Len(list) = 0 THEN <<>>
    ELSE Select(SubSeq(list, 1, Len(list) - 1), keep)
         \o (IF Len(list) \in keep THEN <<list[Len(list)]>> ELSE <<>>)

\* the result lists of at most n entries: entries of the corpus, newest first
ResultLists(n) ==
    {Select(Corpus, keep) : keep \in {k \in SUBSET (1..Len(Corpus)) : Cardinality(k) <= n}}

\* the answers of the literature source to a query for max_results results:
\* an ArxivError, or at most max_results results
NoAnswer == [error |-> FALSE, message |-> "", results |-> <<>>]

SourceAnswers(max_results) ==
    {[error |-> TRUE, message |-> "Page request resulted in HTTP 503", results |-> <<>>]}
    \cup {[error |-> FALSE, message |-> "", results |-> l] : l \in ResultLists(max_results)}

\* papers handed to generate_with_params
PaperLists ==
    {[j \in 1..Len(l) |-> ProcessPaper(l[j])] :
        l \in {<<>>, <<quantum>>, <<quantum_2, quantum>>, <<quantum, quantum_2, protein>>,
               <<protein, quantum, quantum_2, quantum>>}}

conformant == "{\"overview\":\"A\",\"key_papers\":[],\"trends\":\"B\",\"challenges\":\"C\",\"future_directions\":\"D\"}"

\* what the generation service streams: the contents of the chunks in order
Streams == {
    <<>>,
    <<PyStr("I cannot answer that.")>>,
    <<PyStr("Trends in R&D: "), PyNone, PyStr("a<b"), PyStr("")>>,
    <<PyStr(conformant)>>,
    <<PyStr("Here is the JSON:\n"), PyStr(SubSeq(conformant, 1, 20)), PyNone,
      PyStr(SubSeq(conformant, 21, Len(conformant))), PyStr("\nDone.")>>,
    <<PyStr("{not json}")>>,
    <<PyStr("}{")>>,
    <<PyStr("{\"overview\":\"A\"}")>>,
    <<PyStr("{\"overview\":1,\"key_papers\":[],\"trends\":\"B\",\"challenges\":\"C\",\"future_directions\":\"D\"}")>>,
    <<PyStr("{\"overview\":\"A & B\",\"key_papers\":[{\"title\":\"T\",\"authors\":[\"X\"],\"year\":2021,\"abstract\":\"S\",\"url\":\"https://arxiv.org/abs/1\",\"citations\":0}],\"trends\":\"B\",\"challenges\":\"C\",\"future_directions\":\"D\"}")>>,
    <<PyStr("{\"overview\":\"A\",\"key_papers\":[{\"title\":\"T\"}],\"trends\":\"B\",\"challenges\":\"C\",\"future_directions\":\"D\"}")>>,
    <<PyStr("Use {braces} like {\"overview\":\"A\"}")>>,
    <<PyStr("{\"overview\":\"A\",\"key_papers\":[],\"trends\":\"on1=\",\"challenges\":\"C\",\"future_directions\":\"D\"}")>> }

\* the contents a chunk may carry
Fragments == {PyStr("a"), PyStr("b"), PyStr(""), PyNone}

RECURSIVE SequencesUpTo(_, _)
SequencesUpTo(S, n) ==
    IF n = 0 THEN {<<>>}
    ELSE SequencesUpTo(S, n - 1)
         \cup {Append(q, x) : q \in SequencesUpTo(S, n - 1), x \in S}

\* what the generation service may stream
FragmentSequences == Streams \cup SequencesUpTo(Fragments, MaxFragments)

(***************************************************************************)
(* State                                                                   *)
(***************************************************************************)
VARIABLES
    vcall, vres,        \* a call of validate_domain_input and its outcome
    stext, shist,       \* a value and the results of sanitize_output applied to it
    ucall, ures,        \* a call of validate_url and its outcome
    index,              \* PaperRetriever.index: the vectors added so far
    searches,           \* calls of search_papers made on that retriever
    rcall, rres,        \* the last call of search_papers and its outcome
    gcall, gres,        \* a call of generate_with_params and its outcome
    pc,                 \* where the "Generate Review" handler is
    request,            \* the widgets' values when the button is pressed
    input_data,         \* the DomainInput built from the validated values
    papers,             \* what get_papers returned
    review,             \* what generate_review returned
    failure,            \* the exception the handler caught: [stage, kind, msg]
    net,                \* the external calls made in this run, in order
    stream,             \* the chunks the generation service delivers to _stream_*
    position,           \* how many of them the loop has consumed
    full_response,      \* _stream_*'s full_response
    returned            \* what _stream_* returned: [done, response]

vvars == <<vcall, vres>>

svars == <<stext, shist>>

uvars == <<ucall, ures>>

rvars == <<index, searches, rcall, rres>>

gvars == <<gcall, gres>>

hvars == <<pc, request, input_data, papers, review, failure, net>>

tvars == <<stream, position, full_response, returned>>

vars == <<vcall, vres, stext, shist, ucall, ures, index, searches, rcall, rres,
          gcall, gres, pc, request, input_data, papers, review, failure, net,
          stream, position, full_response, returned>>

NoQuery == Query(PyNone, PyNone, PyNone, PyNone)

NoUrl == [scheme |-> "", sep |-> "", userinfo |-> "", host |-> "", port |-> "",
          path |-> "", url |-> PyNone]

NoSearch == [domain |-> PyNone, years |-> PyNone, count |-> PyNone,
             source |-> NoAnswer, before |-> <<>>]

NoSearchResult == [ok |-> FALSE, kind |-> "", err |-> "", papers |-> <<>>,
                   net |-> <<>>, index |-> <<>>]

NoGenerate == [papers |-> <<>>, domain |-> PyNone, temperature |-> PyNone,
               model |-> "", chunks |-> <<>>]

NoGenerateResult == [raised |-> "", err |-> "", review |-> NoReview, net |-> <<>>]

NoInputData == [ok |-> FALSE, domain |-> "", years |-> "", paper_count |-> 0,
                temperature |-> 0]

NoFailure == [stage |-> "", kind |-> "", msg |-> ""]

ValidatorIdle == vcall = NoQuery /\ vres = [done |-> FALSE, out |-> Invalid("")]

SanitizerIdle == stext = PyNone /\ shist = <<>>

UrlIdle == ucall = NoUrl /\ ures = [done |-> FALSE, valid |-> FALSE]

RetrieverIdle == /\ index = <<>> /\ searches = 0
                 /\ rcall = NoSearch /\ rres = NoSearchResult

SynthIdle == gcall = NoGenerate /\ gres = [done |-> FALSE, out |-> NoGenerateResult]

StreamIdle == /\ stream = <<>> /\ position = 0 /\ full_response = ""
              /\ returned = [done |-> FALSE, response |-> ""]

HandlerIdle == /\ pc = "idle" /\ request = [query |-> NoQuery, model_choice |-> ""]
               /\ input_data = NoInputData /\ papers = <<>> /\ review = NoReview
               /\ failure = NoFailure /\ net = <<>>

(***************************************************************************)
(* Operations                                                              *)
(***************************************************************************)
\* security_validator.validate_domain_input(domain, years, paper_count, temperature)
ValidateQuery ==
    /\ ~vres.done
    /\ vres' = [done |-> TRUE,
                out  |-> validate_domain_input(vcall.domain, vcall.years,
                                               vcall.paper_count, vcall.temperature)]
    /\ UNCHANGED <<vcall, svars, uvars, rvars, gvars, hvars, tvars>>

\* security_validator.sanitize_output, on the value and then on its own output
SanitizeOutput ==
    /\ Len(shist) < MaxApplications
    /\ shist' = Append(shist, sanitize_output(IF Len(shist) = 0 THEN stext
                                               ELSE PyStr(shist[Len(shist)])))
    /\ UNCHANGED <<stext, vvars, uvars, rvars, gvars, hvars, tvars>>

\* security_validator.validate_url(url)
ValidateUrl ==
    /\ ~ures.done
    /\ ures' = [done |-> TRUE, valid |-> validate_url(ucall.url)]
    /\ UNCHANGED <<ucall, vvars, svars, rvars, gvars, hvars, tvars>>

\* max_results=min(count * 2, 50)
MaxResults(count) == IF count * 2 < 50 THEN count * 2 ELSE 50

\* the answers the literature source and the similarity index may give to a
\* call of search_papers for count papers on an index that holds idx.
\* search_papers reads indices only in the loop that builds unique_indices, so
\* of the answers of self.index.search that build the same unique_indices one
\* stands for all.
SearchEnvironment(idx, count) ==
    LET Distinct(answers) ==
            {CHOOSE a \in answers : UniqueIndices(a, 1, {}) = u :
                u \in {UniqueIndices(a, 1, {}) : a \in answers}}
    IN  UNION {{[source |-> src, indices |-> ind] :
                   ind \in IF Len(src.results) > 1
                           THEN Distinct(KnnAnswers(idx \o Embeddings(src.results),
                                                    Embeddings(src.results)))
                           ELSE {<<>>}}
               : src \in SourceAnswers(MaxResults(count))}

\* retriever.search_papers(domain, years, count) on a retriever that is kept
SearchPapers ==
    /\ searches < MaxSearches
    /\ \E count \in {0, 1, 3} :
          \E env \in SearchEnvironment(index, count) :
             \E out \in {search_papers(index, PyStr("NLP"), PyStr("2020-2024"),
                                       PyInt(count), env.source, env.indices)} :
                 /\ rcall' = [domain |-> PyStr("NLP"), years |-> PyStr("2020-2024"),
                              count |-> PyInt(count),
                              source |-> IF Len(out.net) = 0 THEN NoAnswer
                                         ELSE env.source,
                              before |-> index]
                 /\ rres' = out
                 /\ index' = out.index
    /\ searches' = searches + 1
    /\ UNCHANGED <<vvars, svars, uvars, gvars, hvars, tvars>>

\* generator.generate_with_params(papers, domain, temperature, model)
GenerateWithParams ==
    /\ ~gres.done
    /\ \E ps \in PaperLists, domain \in {PyStr("NLP"), PyStr("rm")},
          temperature \in {PyFloat(7), PyFloat(25)}, model \in {"deepseek", "gpt-4"},
          chunks \in Streams :
             \E out \in {generate_with_params(ps, domain, temperature, model, chunks)} :
                 /\ gcall' = [papers |-> ps, domain |-> domain,
                              temperature |-> temperature, model |-> model,
                              chunks |-> IF Len(out.net) = 0 THEN <<>> ELSE chunks]
                 /\ gres' = [done |-> TRUE, out |-> out]
    /\ UNCHANGED <<vvars, svars, uvars, rvars, hvars, tvars>>

\* one turn of the loop "for chunk in ...create(stream=True)": the next chunk
\* arrives and its content is accumulated
StreamChunk ==
    /\ ~returned.done
    /\ position < Len(stream)
    /\ full_response' = Accumulate(full_response, stream[position + 1])
    /\ position' = position + 1
    /\ UNCHANGED <<stream, returned, vvars, svars, uvars, rvars, gvars, hvars>>

\* the loop is exhausted: return full_response
StreamReturn ==
    /\ ~returned.done
    /\ position = Len(stream)
    /\ returned' = [done |-> TRUE, response |-> full_response]
    /\ UNCHANGED <<stream, position, full_response, vvars, svars, uvars, rvars,
                   gvars, hvars>>

(***************************************************************************)
(* main.py: the "Generate Review" handler, one action per stage; a stage    *)
(* that raises ends the run in the except block (pc = "failed")            *)
(***************************************************************************)
Requests ==
    {Query(PyStr(d), PyStr(y), PyInt(c), PyFloat(t)) :
        d \in {"NLP", "AI", "sy\rstem", "rm"}, y \in {"2020-2024", "2024-2020"},
        c \in {1, 3}, t \in {7}}

Fail(stage, kind, msg) ==
    /\ pc' = "failed"
    /\ failure' = [stage |-> stage, kind |-> kind, msg |-> msg]

\* validate_domain_input and DomainInput(...)
ClickGenerate ==
    /\ pc = "idle"
    /\ \E q \in Requests, model_choice \in {"DeepSeek", "GPT-4"} :
          \E validated \in {validate_domain_input(q.domain, q.years, q.paper_count,
                                                   q.temperature)} :
             \E data \in {DomainInput(validated.domain, validated.years,
                                       validated.paper_count, validated.temperature)} :
                /\ request' = [query |-> q, model_choice |-> model_choice]
                /\ IF ~validated.ok
                   THEN Fail("validate", "validation", validated.err)
                        /\ UNCHANGED input_data
                   ELSE IF ~data.ok
                   THEN Fail("validate", "input_data", "ValidationError")
                        /\ UNCHANGED input_data
                   ELSE pc' = "retrieving" /\ input_data' = data /\ UNCHANGED failure
    /\ UNCHANGED <<papers, review, net, vvars, svars, uvars, rvars, gvars, tvars>>

\* get_papers(input_data.domain, input_data.years, input_data.paper_count): a
\* new PaperRetriever, then search_papers
GetPapers ==
    /\ pc = "retrieving"
    /\ \E env \in SearchEnvironment(<<>>, input_data.paper_count) :
          \E out \in {search_papers(<<>>, PyStr(input_data.domain),
                                    PyStr(input_data.years),
                                    PyInt(input_data.paper_count),
                                    env.source, env.indices)} :
              /\ net' = net \o out.net
              /\ IF out.ok
                 THEN pc' = "generating" /\ papers' = out.papers /\ UNCHANGED failure
                 ELSE Fail("retrieve", out.kind, out.err) /\ UNCHANGED papers
    /\ UNCHANGED <<request, input_data, review, vvars, svars, uvars, rvars, gvars, tvars>>

\* generate_review(papers, input_data.domain, input_data.temperature,
\* model_choice.lower()): a new ReviewGenerator, then generate_with_params
GenerateReview ==
    /\ pc = "generating"
    /\ \E chunks \in Streams :
          \E out \in {generate_with_params(papers, PyStr(input_data.domain),
                                           PyFloat(input_data.temperature),
                                           Lower(request.model_choice), chunks)} :
              /\ net' = net \o out.net
              /\ IF out.raised = ""
                 THEN pc' = "done" /\ review' = out.review /\ UNCHANGED failure
                 ELSE Fail("generate",
                           IF out.raised = "ValueError" THEN "validation"
                           ELSE "structure",
                           out.err)
                      /\ UNCHANGED review
    /\ UNCHANGED <<request, input_data, papers, vvars, svars, uvars, rvars, gvars, tvars>>

(***************************************************************************)
(* Specifications                                                          *)
(***************************************************************************)
\* the handler
Init == /\ ValidatorIdle /\ SanitizerIdle /\ UrlIdle /\ RetrieverIdle /\ SynthIdle
        /\ HandlerIdle /\ StreamIdle

Next == ClickGenerate \/ GetPapers \/ GenerateReview

Spec == Init /\ [][Next]_vars

\* validate_domain_input on every call of ValidatorCalls
InitValidator ==
    /\ vcall \in ValidatorCalls /\ vres = [done |-> FALSE, out |-> Invalid("")]
    /\ SanitizerIdle /\ UrlIdle /\ RetrieverIdle /\ SynthIdle /\ HandlerIdle /\ StreamIdle

NextValidator == ValidateQuery

SpecValidator == InitValidator /\ [][NextValidator]_vars

\* sanitize_output on every value of SanitizeInputs
InitSanitize ==
    /\ stext \in SanitizeInputs /\ shist = <<>>
    /\ ValidatorIdle /\ UrlIdle /\ RetrieverIdle /\ SynthIdle /\ HandlerIdle /\ StreamIdle

NextSanitize == SanitizeOutput

SpecSanitize == InitSanitize /\ [][NextSanitize]_vars

\* validate_url on every URL of UrlInputs
InitUrl ==
    /\ ucall \in UrlInputs /\ ures = [done |-> FALSE, valid |-> FALSE]
    /\ ValidatorIdle /\ SanitizerIdle /\ RetrieverIdle /\ SynthIdle /\ HandlerIdle /\ StreamIdle

NextUrl == ValidateUrl

SpecUrl == InitUrl /\ [][NextUrl]_vars

\* search_papers, called repeatedly on one PaperRetriever
NextRetriever == SearchPapers

SpecRetriever == Init /\ [][NextRetriever]_vars

\* generate_with_params
NextSynth == GenerateWithParams

SpecSynth == Init /\ [][NextSynth]_vars

\* _stream_deepseek / _stream_openai on every stream of FragmentSequences
InitStream ==
    /\ stream \in FragmentSequences /\ position = 0 /\ full_response = ""
    /\ returned = [done |-> FALSE, response |-> ""]
    /\ ValidatorIdle /\ SanitizerIdle /\ UrlIdle /\ RetrieverIdle /\ SynthIdle
    /\ HandlerIdle

NextStream == StreamChunk \/ StreamReturn

SpecStream == InitStream /\ [][NextStream]_vars
(***************************************************************************)
(* Properties                                                              *)
(***************************************************************************)
\* the response the generation service streamed in the call gcall
RawResponse == _stream(gcall.chunks, "")

\* C1: generate_with_params never raises on malformed model output: whatever
\* the generation service answered (no braces, braces around text that is not
\* JSON, JSON that is no ReviewOutput), the call returns a ReviewOutput and
\* no exception reaches the caller.
C1_NeverRaises ==
    (gres.done /\ Len(gres.out.net) > 0) => gres.out.raised = ""

\* C2: in the handler, once search_papers has returned without error (with
\* any result list), generate_review returns a ReviewOutput: no run fails in
\* the generation stage.
C2_ReviewAfterRetrieval ==
    ~(pc = "failed" /\ failure.stage = "generate")

\* C3: a validation failure aborts before any network call: when a run of
\* the handler ends with the Validator's rejection, no call to the literature
\* source, the embedding service or the generation service was made in it.
C3_RejectionBeforeNetwork ==
    (pc = "failed" /\ failure.kind = "validation") => Len(net) = 0

\* the messages of the categories a text falls in: a pattern family that
\* matches it, a blacklist entry it contains, in any letter case
InjectionCategories(text) ==
    {pattern_families[f].message :
        f \in {g \in 1..Len(pattern_families) :
                  MatchesFamily(pattern_families[g].patterns, Lower(text))}}
    \cup {"Blocked keyword detected: " \o blacklist[j] :
             j \in {k \in 1..Len(blacklist) : Contains(Lower(text), Lower(blacklist[k]))}}

\* C5: validate_domain_input rejects every injection payload: a domain that
\* contains a blacklist entry or matches a pattern of one of the four
\* families, in any letter case, is refused with the message of a category
\* it falls in (for a blacklist hit, naming the entry), and no validated
\* values are returned; the malicious inputs of the tests and every blacklist
\* entry, as written, capitalised or inside a word, are such payloads.
C5_InjectionRejected ==
    (vres.done /\ IsStr(vcall.domain)) =>
        /\ InjectionCategories(vcall.domain.s) # {} =>
              /\ ~vres.out.ok
              /\ vres.out.err \in InjectionCategories(vcall.domain.s)
              /\ vres.out.domain = ""
        /\ vcall.domain.s \in malicious_inputs \cup BlacklistTexts =>
              InjectionCategories(vcall.domain.s) # {}

\* the characters the domain may be made of: word characters, whitespace,
\* hyphen, dot, parentheses, plus, ampersand, slash
allowed_chars == WordChars \cup SpaceChars \cup CharsOf("-.()+&/")

\* a well-formed query within the ranges: a domain of the allowed characters,
\* 2 to 100 long (also when trimmed) and no injection payload, years
\* YYYY-YYYY with 1990 <= start <= end <= current_year, a count in [1, 50]
\* and a temperature in [0.1, 2.0]
WellFormedQuery(q) ==
    /\ IsStr(q.domain)
    /\ Len(Strip(q.domain.s)) >= 2 /\ Len(q.domain.s) <= 100
    /\ CharsOf(q.domain.s) \subseteq allowed_chars
    /\ InjectionCategories(q.domain.s) = {}
    /\ IsStr(q.years)
    /\ Len(q.years.s) = 9
    /\ IsDigits(SubSeq(q.years.s, 1, 4)) /\ IsDigits(SubSeq(q.years.s, 6, 9))
    /\ Char(q.years.s, 5) = "-"
    /\ 1990 <= ParseInt(SubSeq(q.years.s, 1, 4))
    /\ ParseInt(SubSeq(q.years.s, 1, 4)) <= ParseInt(SubSeq(q.years.s, 6, 9))
    /\ ParseInt(SubSeq(q.years.s, 6, 9)) <= current_year
    /\ IsNumber(q.paper_count) /\ q.paper_count.n >= 10 /\ q.paper_count.n <= 500
    /\ IsNumber(q.temperature) /\ q.temperature.n >= 1 /\ q.temperature.n <= 20

\* C4: validate_domain_input accepts every well-formed query within the
\* ranges, and the fields it returns are the input, the domain trimmed (where
\* the domain holds a line break or an ampersand, which sanitizing rewrites,
\* any returned domain will do).
C4_AcceptsWellFormed ==
    (vres.done /\ WellFormedQuery(vcall)) =>
        /\ vres.out.ok
        /\ CharsOf(vcall.domain.s) \cap {"\r", "\n", "&"} = {} =>
              vres.out.domain = Strip(vcall.domain.s)
        /\ vres.out.years = vcall.years.s
        /\ vres.out.paper_count = IntOf(vcall.paper_count)
        /\ vres.out.temperature = vcall.temperature.n

\* a blacklist entry written with a capital is refused, and the entry named
C5_Witness ==
    /\ vres.done
    /\ vcall.domain = PyStr("InnerHTML")
    /\ vres.out.err = "Blocked keyword detected: innerHTML"

\* among three vectors, a and b are each the other's nearest, c is the third
NearDuplicatePair(vecs, a, b, c) ==
    /\ {a, b, c} = {1, 2, 3} /\ a < b
    /\ L2(vecs[a], vecs[b]) < L2(vecs[a], vecs[c])
    /\ L2(vecs[a], vecs[b]) < L2(vecs[b], vecs[c])

\* C6: deduplication collapses a near-duplicate pair: of three candidates of
\* which two are each the other's nearest neighbour and the third is
\* unrelated, a search on a new retriever for at least three papers returns
\* exactly two: one of the pair and the unrelated one.
C6_PairCollapsed ==
    (/\ rres.ok /\ Len(rcall.before) = 0
     /\ Len(rcall.source.results) = 3 /\ IntOf(rcall.count) >= 3) =>
        \A a, b, c \in 1..3 :
            NearDuplicatePair(Embeddings(rcall.source.results), a, b, c) =>
                /\ Len(rres.papers) = 2
                /\ {rres.papers[j] : j \in 1..Len(rres.papers)} \in
                      {{ProcessPaper(rcall.source.results[a]),
                        ProcessPaper(rcall.source.results[c])},
                       {ProcessPaper(rcall.source.results[b]),
                        ProcessPaper(rcall.source.results[c])}}

\* sub is full with some entries left out
RECURSIVE IsSubsequence(_, _)
IsSubsequence(sub, full) ==
    IF Len(sub) = 0 THEN TRUE
    ELSE IF Len(full) = 0 THEN FALSE
    ELSE IF Head(sub) = Head(full) THEN IsSubsequence(Tail(sub), Tail(full))
    ELSE IsSubsequence(sub, Tail(full))

\* C7: a successful search_papers returns at most count papers, and they are
\* candidates of the literature source in the order it returned them, none
\* twice.
C7_BoundedSubsequence ==
    rres.ok =>
        /\ Len(rres.papers) <= IntOf(rcall.count)
        /\ IsSubsequence(rres.papers,
                         [j \in 1..Len(rcall.source.results) |->
                             ProcessPaper(rcall.source.results[j])])
        /\ \A i, j \in 1..Len(rres.papers) : i # j => rres.papers[i] # rres.papers[j]

\* a search on a retriever used before, in which two candidates were found
\* and the result was cut to the one paper asked for
C7_Witness ==
    /\ rres.ok /\ Len(rcall.before) > 0
    /\ Len(rcall.source.results) = 2 /\ IntOf(rcall.count) = 1
    /\ Len(rres.papers) = 1

\* C8: sanitize_output is idempotent: applied to its own output it changes
\* nothing.
C8_Idempotent ==
    Len(shist) >= 2 => shist[2] = shist[1]

\* C9: validate_url returns False for every URL whose scheme is javascript,
\* data, file or ftp and for every URL whose host begins with a private or
\* loopback prefix, whatever the letter case of the host and with or without
\* userinfo and port, and True for a well-formed https://arxiv.org/abs/ URL.
C9_UnsafeUrlsRejected ==
    ures.done =>
        /\ Lower(ucall.scheme) \in {"javascript", "data", "file", "ftp"} => ~ures.valid
        /\ (/\ ucall.sep = "://"
            /\ \E prefix \in private_prefixes : StartsWith(Lower(ucall.host), prefix))
               => ~ures.valid
        /\ ucall.url = PyStr("https://arxiv.org/abs/2101.00001") => ures.valid

\* C10: degradation: for a response without "{" and "}", generate_with_params
\* does not raise and returns a ReviewOutput whose overview contains the
\* response as sanitized once, whose trends, challenges and
\* future_directions are empty and whose key_papers are the first three
\* input papers in order.
C10_Degradation ==
    (/\ gres.done /\ Len(gres.out.net) > 0
     /\ ~Contains(RawResponse, "{") /\ ~Contains(RawResponse, "}")) =>
        /\ gres.out.raised = ""
        /\ Contains(gres.out.review.overview, sanitize_output(PyStr(RawResponse)))
        /\ gres.out.review.trends = ""
        /\ gres.out.review.challenges = ""
        /\ gres.out.review.future_directions = ""
        /\ gres.out.review.key_papers = FirstN(gcall.papers, 3)

\* the JSON object the generation service sent: json.loads of the streamed
\* response from its first "{" to its last "}"
ResponseObject ==
    LET Located(json_start, json_end) ==
            IF json_start # 0 - 1 /\ json_end > json_start
            THEN json_loads(Slice(RawResponse, json_start, json_end))
            ELSE JFail
    IN  Located(Find(RawResponse, "{"), RFind(RawResponse, "}") + 1)

SanitizedText(str) == sanitize_output(PyStr(str))

SanitizedPaper(p) ==
    [p EXCEPT !.title = SanitizedText(p.title),
              !.abstract = SanitizedText(p.abstract),
              !.url = SanitizedText(p.url),
              !.authors = [j \in 1..Len(p.authors) |-> SanitizedText(p.authors[j])]]

\* C11: round trip: when the streamed response, from its first "{" to its last
\* "}", is one JSON object that ReviewOutput accepts, generate_with_params
\* returns (without raising, and not the fallback) the ReviewOutput whose
\* overview, trends, challenges and future_directions are the object's values
\* as sanitized and whose key_papers are the object's key_papers.
C11_RoundTrip ==
    (/\ gres.done /\ Len(gres.out.net) > 0
     /\ ResponseObject.ok /\ ReviewOutputValid(ResponseObject.val)) =>
        LET Same(sent) ==
                /\ gres.out.raised = ""
                /\ gres.out.review.overview = SanitizedText(sent.overview)
                /\ gres.out.review.trends = SanitizedText(sent.trends)
                /\ gres.out.review.challenges = SanitizedText(sent.challenges)
                /\ gres.out.review.future_directions =
                       SanitizedText(sent.future_directions)
                /\ gres.out.review.key_papers =
                       [j \in 1..Len(sent.key_papers) |->
                           SanitizedPaper(sent.key_papers[j])]
        IN  Same(ReviewOutputOf(ResponseObject.val))

\* a query with a field out of its range: the domain shorter than 2 characters
\* after trimming or longer than 100, the years NNNN-NNNN with the start before
\* 1990, the end after current_year or the start after the end, int(paper_count)
\* outside 1..50, the temperature not within 0.1..2.0
OutOfRange(q) ==
    \/ IsStr(q.domain) /\ (Len(Strip(q.domain.s)) < 2 \/ Len(q.domain.s) > 100)
    \/ /\ IsStr(q.years) /\ MatchAlt(years_regex, q.years.s)
       /\ \/ ParseInt(SubSeq(q.years.s, 1, 4)) < 1990
          \/ ParseInt(SubSeq(q.years.s, 6, 9)) > current_year
          \/ ParseInt(SubSeq(q.years.s, 1, 4)) > ParseInt(SubSeq(q.years.s, 6, 9))
    \/ /\ IsNumber(q.paper_count)
       /\ (IsNaN(q.paper_count) \/ IntOf(q.paper_count) < 1 \/ IntOf(q.paper_count) > 50)
    \/ /\ IsNumber(q.temperature)
       /\ (IsNaN(q.temperature) \/ q.temperature.n < 1 \/ q.temperature.n > 20)

\* C12: validate_domain_input rejects every query with a field out of its
\* range with a ValueError and returns no values; with the other fields
\* valid, the paper counts 1 and 50 are accepted.
C12_OutOfRangeRejected ==
    vres.done =>
        /\ OutOfRange(vcall) =>
              ~vres.out.ok /\ vres.out.err # "" /\ vres.out.domain = ""
        /\ (\E c \in {1, 50} :
               vcall = Query(PyStr("Machine Learning"), PyStr("2020-2024"),
                             PyInt(c), PyFloat(7))) => vres.out.ok

\* what the call rcall may return on a retriever whose index is empty
FreshResults ==
    {search_papers(<<>>, rcall.domain, rcall.years, rcall.count, rcall.source,
                   ind).papers :
        ind \in KnnAnswers(Embeddings(rcall.source.results),
                           Embeddings(rcall.source.results))}

\* C13: each search_papers call builds its own index: after any earlier calls
\* on the same retriever, the index searched by a call that deduplicates holds
\* exactly the vectors of that call's candidates, and the papers returned are
\* papers the same call returns on a fresh retriever.
C13_OwnIndex ==
    (rres.ok /\ Len(rcall.source.results) > 1) =>
        /\ rres.index = Embeddings(rcall.source.results)
        /\ rres.papers \in FreshResults

\* C14: every Paper search_papers returns has a url that validate_url
\* accepts: it is the url of a candidate that validate_url accepts, or, where
\* a candidate's url is not accepted, the default https://arxiv.org/, which
\* validate_url accepts too.
C14_ReturnedUrlsValid ==
    rres.ok =>
        \A j \in 1..Len(rres.papers) :
            LET Checked(url, candidates) ==
                    /\ validate_url(PyStr(url))
                    /\ \/ \E r \in candidates : r.url = url /\ validate_url(PyStr(r.url))
                       \/ /\ url = "https://arxiv.org/"
                          /\ \E r \in candidates : ~validate_url(PyStr(r.url))
            IN  Checked(rres.papers[j].url,
                        {rcall.source.results[k] : k \in 1..Len(rcall.source.results)})

\* a search returned a paper that kept its url and a paper whose url was
\* replaced
C14_Witness ==
    /\ rres.ok
    /\ \E j \in 1..Len(rres.papers) :
          rres.papers[j].url = "https://arxiv.org/abs/2101.00001"
    /\ \E j \in 1..Len(rres.papers) :
          /\ rres.papers[j].url = "https://arxiv.org/"
          /\ \E k \in 1..Len(rcall.source.results) :
                rcall.source.results[k].url = "ftp://arxiv.org/abs/2101.00003"

\* the messages of the type checks a query fails
TypeErrors(q) ==
    {m \in {"Domain must be a string", "Years must be a string in format 'YYYY-YYYY'",
            "Paper count must be a number", "Temperature must be a number"} :
        \/ m = "Domain must be a string" /\ ~IsStr(q.domain)
        \/ m = "Years must be a string in format 'YYYY-YYYY'" /\ ~IsStr(q.years)
        \/ m = "Paper count must be a number" /\ ~IsNumber(q.paper_count)
        \/ m = "Temperature must be a number" /\ ~IsNumber(q.temperature)}

PatternMessages(text) ==
    {pattern_families[f].message :
        f \in {g \in 1..Len(pattern_families) :
                  MatchesFamily(pattern_families[g].patterns, Lower(text))}}

DenylistMessages(text) ==
    {"Blocked keyword detected: " \o blacklist[j] :
        j \in {k \in 1..Len(blacklist) : Contains(Lower(text), Lower(blacklist[k]))}}

\* a text after the escaping and the removal of line breaks
Escaped(text) == ReplaceChar(ReplaceChar(HtmlEscape(text, TRUE), "\r", ""), "\n", " ")

LengthMessages(q) ==
    {"Input too long. Maximum 100 characters allowed" : x \in
        {t \in {q.domain.s} : Len(Escaped(t)) > 100}}
    \cup {"Input too long. Maximum 20 characters allowed" : x \in
        {t \in {q.years.s} : Len(Escaped(t)) > 20}}

CharsetMessages(q) ==
    {m \in {"Domain must be at least 2 characters long",
            "Domain contains invalid characters. Only letters, numbers, spaces, hyphens, dots, and parentheses are allowed"} :
        \/ /\ m = "Domain must be at least 2 characters long"
           /\ Len(Strip(Escaped(q.domain.s))) < 2
        \/ /\ m # "Domain must be at least 2 characters long"
           /\ ~MatchAlt(domain_regex, Strip(Escaped(q.domain.s)))}

YearsMessages(q) ==
    LET y == Strip(Escaped(q.years.s))
    IN  IF ~MatchAlt(years_regex, y) THEN {"Years must be in format 'YYYY-YYYY'"}
        ELSE {m \in {"Years must be between 1990 and " \o ToStr(current_year),
                     "Start year must be less than or equal to end year"} :
                \/ /\ m = "Start year must be less than or equal to end year"
                   /\ ParseInt(SubSeq(y, 1, 4)) > ParseInt(SubSeq(y, 6, 9))
                \/ /\ m # "Start year must be less than or equal to end year"
                   /\ \/ ParseInt(SubSeq(y, 1, 4)) < 1990
                      \/ ParseInt(SubSeq(y, 6, 9)) > current_year}

\* the range checks of the numbers (a nan paper count has no integer value; a
\* nan temperature is left to C12)
NumberMessages(q) ==
    {m \in {"Paper count must be between 1 and 50",
            "cannot convert float NaN to integer",
            "Temperature must be between 0.1 and 2.0"} :
        \/ m = "cannot convert float NaN to integer" /\ IsNaN(q.paper_count)
        \/ /\ m = "Paper count must be between 1 and 50"
           /\ ~IsNaN(q.paper_count)
           /\ (IntOf(q.paper_count) < 1 \/ IntOf(q.paper_count) > 50)
        \/ /\ m = "Temperature must be between 0.1 and 2.0"
           /\ ~IsNaN(q.temperature)
           /\ (q.temperature.n < 1 \/ q.temperature.n > 20)}

\* the first non-empty one of a sequence of sets ({} when all are empty)
RECURSIVE FirstNonEmpty(_)
FirstNonEmpty(sets) ==
    IF Len(sets) = 0 THEN {}
    ELSE IF sets[1] # {} THEN sets[1]
    ELSE FirstNonEmpty(Tail(sets))

\* the messages of the first step a query violates, in the order: types,
\* injection patterns, denylist, length, charset, years, number ranges
FirstViolation(q) ==
    IF TypeErrors(q) # {} THEN TypeErrors(q)
    ELSE FirstNonEmpty(<<PatternMessages(q.domain.s) \cup PatternMessages(q.years.s),
                         DenylistMessages(q.domain.s) \cup DenylistMessages(q.years.s),
                         LengthMessages(q), CharsetMessages(q), YearsMessages(q),
                         NumberMessages(q)>>)

\* C15: validate_domain_input is fail-fast in the order of the steps, the type
\* checks of all four fields first: a query with a field of the wrong type
\* fails with a type error whatever its texts hold, and the error of any
\* refused query is one of the first step it violates, in the order types,
\* injection patterns, denylist, length, charset, years, number ranges.
C15_StepOrder ==
    (vres.done /\ FirstViolation(vcall) # {}) =>
        ~vres.out.ok /\ vres.out.err \in FirstViolation(vcall)

\* what a chunk contributes: its content, nothing where it has none
ContentOf(chunk) == IF IsStr(chunk) THEN chunk.s ELSE ""

\* the length of the contents of the first k chunks
RECURSIVE ContentLen(_, _)
ContentLen(chunks, k) ==
    IF k = 0 THEN 0 ELSE ContentLen(chunks, k - 1) + Len(ContentOf(chunks[k]))

\* str is the contents of the first k chunks, each once, in their order
InArrivalOrder(str, chunks, k) ==
    /\ Len(str) = ContentLen(chunks, k)
    /\ \A j \in 1..k :
          SubSeq(str, ContentLen(chunks, j - 1) + 1, ContentLen(chunks, j))
             = ContentOf(chunks[j])

\* C16: accumulation keeps the arrival order: at every moment full_response
\* is the contents of the chunks consumed so far, each once and in the order
\* of arrival (a chunk without content or with empty content adds nothing);
\* the response is returned only when every chunk has been consumed, it is
\* the contents of all chunks in order, and it is what generate_with_params
\* sanitizes.
C16_ArrivalOrder ==
    /\ InArrivalOrder(full_response, stream, position)
    /\ returned.done =>
          /\ position = Len(stream)
          /\ InArrivalOrder(returned.response, stream, Len(stream))
          /\ returned.response = _stream(stream, "")

\* a stream of two different contents around a chunk without content was
\* consumed and returned
C16_Witness ==
    /\ returned.done
    /\ stream = <<PyStr("a"), PyNone, PyStr("b")>>
    /\ returned.response = "ab"
=============================================================================
